---- MODULE Spec2Model ----
(***************************************************************************)
(* Brother QL label printer driver (crate brother_ql): the device channel  *)
(* (Printer), the status codec (read_status, pixel_width), the command     *)
(* codec (PrinterCommand::to_bytes), the raster pipeline (render_image,    *)
(* img_to_lines) and the print orchestrator (print_lines), as driven by    *)
(* the CLI and by the bot's polling loop.                                  *)
(*                                                                         *)
(* Byte buffers are sequences of 0..255; At(s, i) reads the source's       *)
(* zero-based index i.                                                     *)
(***************************************************************************)
EXTENDS Integers, Sequences, FiniteSets, TLC

VARIABLES
    pc,          \* position of the caller (CLI main / bot loop) in render_image, print_lines
    jobs,        \* number of images the caller has started to process
    build,       \* "debug" (overflow checks on) or "release" (wrapping arithmetic)
    settings,    \* Settings {dpi_600, auto_cut, dithering}
    img,         \* the decoded source image of the current job: <<width, height>> or Undecodable
    open,        \* number of open handles on /dev/usb/lp0
    log,         \* device operations performed by the current call, in order
    devRest,     \* bytes of a status reply the device delivered only in part so far
    rdLen,       \* Printer::read: requested length
    rdTries,     \* Printer::read: the local `tries`
    rdAttempts,  \* Printer::read: read_exact calls made by the current call
    rdSleeps,    \* Printer::read: 10 ms sleeps taken by the current call
    rdGot,       \* Printer::read: every byte the device delivered during the current call
    rdBuf,       \* Printer::read: content of `buf` after the last read_exact
    rdRes,       \* Printer::read: "none" while looping, then "Ok" or "Err"
    partials,    \* read_exact calls so far that the device cut short after some bytes
    status,      \* the PrinterStatus bound by `let status = printer.read_status()?`
    lines,       \* the rendered document: a sequence of 90-byte lines
    lineIdx,     \* print_lines: number of lines already handed to send_command
    outcome,     \* how the last render_image / print_lines call ended
    task,        \* codec specification: the input under test
    result       \* codec specification: the output computed for it

vars == <<pc, jobs, build, settings, img, open, log, devRest, rdLen, rdTries,
          rdAttempts, rdSleeps, rdGot, rdBuf, rdRes, partials, status, lines, lineIdx,
          outcome, task, result>>

------------------------------------------------------------------------------
(* Bounds of the model *)

\* images the caller processes in one run of the model (the CLI processes one)
MaxJobs == 2
\* read_exact calls in one run that the device cuts short after delivering
\* some bytes (calls that deliver nothing are not limited)
MaxPartial == 1

------------------------------------------------------------------------------
(* Program constants *)

\* read_status: self.printer.read(32)
StatusLen == 32
\* Printer::read: if tries > 10
MaxTries == 10
\* Printer::read: sleep(Duration::from_millis(10))
SleepMs == 10
\* img_to_lines: let padding = 720 - image_width; render_image: unwrap_or(720)
HeadDots == 720
\* img_to_lines: [0u8; 90]
LineBytes == 90
\* PrinterCommand::Reset => vec![0x00; 200]
ResetLen == 200

Byte == 0..255

At(s, i) == s[i + 1]

\* Vec::with_capacity(n): room for n bytes, none of them there
ZerosWithCapacity(n) == <<>>

\* vec![0x00; n], [0u8; n]
Zeros(n) == [i \in 1..n |-> 0]

B2I(b) == IF b THEN 1 ELSE 0

\* u8 `<<`: the bits shifted past bit 7 are lost
Shl8(v, k) == (v * (2 ^ k)) % 256

\* bits & mask != 0, for a mask with one bit set
BitSet(bits, mask) == (bits \div mask) % 2 = 1

\* u8 `|` of two values with no common bit
Or8(a, b) == a + b

Take(s, n) == SubSeq(s, 1, n)
Drop(s, n) == SubSeq(s, n + 1, Len(s))

------------------------------------------------------------------------------
(* Status codec *)

NoStatus == [kind |-> "none"]

\* from_bits testing the five lowest bits instead of the five declared masks
ErrorInformation1_from_low_bits(bits) ==
    [no_media_when_printing |-> BitSet(bits, 1),
     end_of_media           |-> BitSet(bits, 2),
     tape_cutter_jam        |-> BitSet(bits, 4),
     main_unit_in_use       |-> BitSet(bits, 8),
     fan_doesnt_work        |-> BitSet(bits, 16)]

ErrorInformation1_from_bits(bits) ==
    [no_media_when_printing |-> BitSet(bits, 1),
     end_of_media           |-> BitSet(bits, 2),
     tape_cutter_jam        |-> BitSet(bits, 4),
     main_unit_in_use       |-> BitSet(bits, 16),
     fan_doesnt_work        |-> BitSet(bits, 128)]

ErrorInformation2_from_bits(bits) ==
    [transmission_error          |-> BitSet(bits, 4),
     cover_opened_while_printing |-> BitSet(bits, 16),
     cannot_feed                 |-> BitSet(bits, 64),
     system_error                |-> BitSet(bits, 128)]

\* match res[11]
MediaTypeOf(b) ==
    CASE b = 0  -> "NoMedia"
      [] b = 10 -> "Continuous"
      [] b = 11 -> "DieCutLabels"
      [] OTHER  -> "panic"

\* the discriminants MediaType would have without the explicit `= 0x..`
MediaTypeOrdinal(m) ==
    CASE m = "NoMedia"      -> 0
      [] m = "Continuous"   -> 1
      [] m = "DieCutLabels" -> 2

\* enum MediaType's discriminants: `status.media_type as u8`
MediaTypeAsU8(m) ==
    CASE m = "NoMedia"      -> 0
      [] m = "Continuous"   -> 10
      [] m = "DieCutLabels" -> 11

\* match res[18]
StatusTypeOf(b) ==
    CASE b = 0 -> "ReplyToStatusRequest"
      [] b = 1 -> "PrintingCompleted"
      [] b = 2 -> "Error"
      [] b = 5 -> "Notification"
      [] b = 6 -> "PhaseChange"
      [] OTHER -> "panic"

\* match res[19]
PhaseStateOf(b) ==
    CASE b = 0 -> "Waiting"
      [] b = 1 -> "Printing"
      [] OTHER -> "panic"

\* read_status without its two assertions
DecodeStatusUnchecked(res) ==
    IF MediaTypeOf(At(res, 11)) = "panic" THEN [kind |-> "panic", msg |-> "Unknown media type"]
    ELSE IF StatusTypeOf(At(res, 18)) = "panic" THEN [kind |-> "panic", msg |-> "Unknown status type"]
    ELSE IF PhaseStateOf(At(res, 19)) = "panic" THEN [kind |-> "panic", msg |-> "Unknown phase state"]
    ELSE [kind         |-> "status",
          media_width  |-> At(res, 10),
          media_type   |-> MediaTypeOf(At(res, 11)),
          media_length |-> At(res, 17),
          error1       |-> ErrorInformation1_from_bits(At(res, 8)),
          error2       |-> ErrorInformation2_from_bits(At(res, 9)),
          status_type  |-> StatusTypeOf(At(res, 18)),
          phase_state  |-> PhaseStateOf(At(res, 19))]

\* read_status after self.printer.read(32)? returned res: the two assertions,
\* the three matches, then the struct.  A failed assertion and an unmatched
\* code both panic; the function has no other way to fail.
DecodeStatus(res) ==
    IF At(res, 0) # 128 THEN [kind |-> "panic", msg |-> "assertion failed: res[0] == 0x80"]
    ELSE IF At(res, 1) # 32 THEN [kind |-> "panic", msg |-> "assertion failed: res[1] == 0x20"]
    ELSE IF MediaTypeOf(At(res, 11)) = "panic" THEN [kind |-> "panic", msg |-> "Unknown media type"]
    ELSE IF StatusTypeOf(At(res, 18)) = "panic" THEN [kind |-> "panic", msg |-> "Unknown status type"]
    ELSE IF PhaseStateOf(At(res, 19)) = "panic" THEN [kind |-> "panic", msg |-> "Unknown phase state"]
    ELSE [kind         |-> "status",
          media_width  |-> At(res, 10),
          media_type   |-> MediaTypeOf(At(res, 11)),
          media_length |-> At(res, 17),
          error1       |-> ErrorInformation1_from_bits(At(res, 8)),
          error2       |-> ErrorInformation2_from_bits(At(res, 9)),
          status_type  |-> StatusTypeOf(At(res, 18)),
          phase_state  |-> PhaseStateOf(At(res, 19))]

\* PrinterStatus::pixel_width: 0 stands for None
pixel_width(st) ==
    LET g == <<st.media_width, st.media_length>> IN
    CASE g = <<12, 0>>    -> 142 - 29
      [] g = <<18, 0>>    -> 256 - 171
      [] g = <<29, 0>>    -> 342 - 6
      [] g = <<38, 0>>    -> 449 - 12
      [] g = <<50, 0>>    -> 590 - 12
      [] g = <<54, 0>>    -> 636 - 0
      [] g = <<62, 0>>    -> 732 - 12
      [] g = <<102, 0>>   -> 1200 - 12
      [] g = <<104, 0>>   -> 1224 - 12
      [] g = <<17, 54>>   -> 201 - 0
      [] g = <<17, 87>>   -> 201 - 0
      [] g = <<23, 23>>   -> 272 - 42
      [] g = <<29, 42>>   -> 342 - 6
      [] g = <<29, 90>>   -> 342 - 6
      [] g = <<38, 90>>   -> 449 - 12
      [] g = <<39, 48>>   -> 461 - 6
      [] g = <<52, 29>>   -> 614 - 0
      [] g = <<54, 29>>   -> 630 - 60
      [] g = <<60, 87>>   -> 708 - 18
      [] g = <<62, 29>>   -> 732 - 12
      [] g = <<62, 100>>  -> 732 - 12
      [] g = <<102, 51>>  -> 1200 - 12
      [] g = <<102, 153>> -> 1200 - 12
      [] g = <<104, 164>> -> 1224 - 12
      [] g = <<24, 24>>   -> 284 - 42
      [] g = <<58, 58>>   -> 688 - 51
      [] OTHER            -> 0

------------------------------------------------------------------------------
(* Command codec *)

\* PrinterCommandMode's discriminants: `mode.clone() as u8`
PrinterCommandModeAsU8(m) ==
    CASE m = "EscpNormal"     -> 0
      [] m = "Raster"         -> 1
      [] m = "EscpText"       -> 2
      [] m = "PtouchTemplate" -> 3

\* i32::to_le_bytes: two's complement, least significant byte first
I32ToLeBytes(n) ==
    <<n % 256, (n \div 256) % 256, (n \div 65536) % 256, (n \div 16777216) % 256>>

\* u16::to_be_bytes
U16ToBeBytes(n) == <<(n \div 256) % 256, n % 256>>

\* u16::to_le_bytes
U16ToLeBytes(n) == <<n % 256, (n \div 256) % 256>>

\* `*baud_rate as u8, (baud_rate >> 8) as u8`
BaudBytes(n) == <<n % 256, (n \div 256) % 256>>

\* let flags = 0x02 | 0x04 | 0x08 | 0x40 | 0x80
PrintInfoFlags == Or8(Or8(Or8(Or8(2, 4), 8), 64), 128)

\* the SetPrintInformation arm of to_bytes
PrintInformationBytes(st, line_count) ==
    <<27, 105, 122, PrintInfoFlags,
      MediaTypeAsU8(st.media_type), st.media_width, st.media_length>>
    \o I32ToLeBytes(line_count) \o <<1, 0>>

\* PrinterCommand::to_bytes
to_bytes(c) ==
    CASE c.tag = "Reset"                  -> Zeros(ResetLen)
      [] c.tag = "Invalid"                -> <<0>>
      [] c.tag = "Initialize"             -> <<27, 64>>
      [] c.tag = "StatusInfoRequest"      -> <<27, 105, 83>>
      [] c.tag = "SetCommandMode"         -> <<27, 105, 97, PrinterCommandModeAsU8(c.mode)>>
      [] c.tag = "SetPrintInformation"    -> PrintInformationBytes(c.status, c.line_count)
      [] c.tag = "SetMode"                -> <<27, 105, 77, Shl8(B2I(c.auto_cut), 6)>>
      [] c.tag = "SetPageNumber"          -> <<27, 105, 65, c.page_number>>
      [] c.tag = "SetExpandedMode"        ->
            <<27, 105, 75, Or8(Shl8(B2I(c.cut_at_end), 4),
                               Shl8(B2I(c.high_resolution_printing), 6))>>
      [] c.tag = "SetMarginAmount"        -> <<27, 105, 100>> \o U16ToLeBytes(c.margin)
      [] c.tag = "SetCompressionMode"     -> <<77, 0>>
      [] c.tag = "RasterGraphicsTransfer" -> <<103, 0, 90>> \o c.data
      [] c.tag = "ZeroRasterGraphics"     -> <<90>>
      [] c.tag = "Print"                  -> <<12>>
      [] c.tag = "PrintWithFeeding"       -> <<26>>
      [] c.tag = "SetBaudRate"            -> <<27, 105, 66>> \o BaudBytes(c.baud_rate)

Cmd(tag) == [tag |-> tag]

------------------------------------------------------------------------------
(* Device channel *)

\* File::options().read(true).write(true).open(path)
OpenHandle(n) == n + 1

\* a handle that outlives its owner (a leaked File)
KeepHandle(n) == n

\* the File is dropped when its owner goes out of scope: on return, on `?`
\* and while a panic unwinds
CloseHandle(n) == n - 1

\* A 32-byte status reply as the printer sends it; `fill` stands at every
\* offset the decoder does not read.
MkReply(b0, b1, b8, b9, b10, b11, b17, b18, b19, fill) ==
    [i \in 1..StatusLen |->
        CASE i = 1  -> b0
          [] i = 2  -> b1
          [] i = 9  -> b8
          [] i = 10 -> b9
          [] i = 11 -> b10
          [] i = 12 -> b11
          [] i = 18 -> b17
          [] i = 19 -> b18
          [] i = 20 -> b19
          [] OTHER  -> fill]

\* Replies the printer sends during a session: three media geometries
\* (62 mm endless, 102 mm endless, an unknown one), a completion notice, and
\* one malformed reply per check of read_status.
SessionReplies ==
    { MkReply(128, 32, 0, 0, 62, 10, 0, 0, 0, 0),
      MkReply(128, 32, 0, 0, 102, 10, 0, 0, 0, 0),
      MkReply(128, 32, 1, 4, 99, 11, 99, 1, 1, 255),
      MkReply(0, 32, 0, 0, 62, 10, 0, 0, 0, 0),
      MkReply(128, 0, 255, 255, 99, 7, 99, 3, 2, 255),
      MkReply(128, 32, 0, 0, 62, 7, 0, 0, 0, 0),
      MkReply(128, 32, 0, 0, 62, 10, 0, 3, 0, 0),
      MkReply(128, 32, 0, 0, 62, 10, 0, 0, 2, 0) }

\* byte counts a read_exact call can stop at before its buffer is full
ShortSamples == {0, 1, 12}

ShortLens(len) == {k \in ShortSamples : k < len}

\* byte counts a failed write_all can have written
PartialWrites(bytes) == {k \in {0, 1} : k < Len(bytes)}

WriteOp(c, bytes, ok) == [op |-> "write", cmd |-> c, bytes |-> bytes, ok |-> ok]
\* a call of Printer::read; buf is what it returned, <<>> while it has not
ReadOp(len, buf) == [op |-> "read", len |-> len, buf |-> buf]

\* the log without the entry of the call of Printer::read that is running
BeforeRead == IF rdAttempts = 0 THEN log ELSE SubSeq(log, 1, Len(log) - 1)

\* Printer::read: `tries += 1; if tries > 10 { return Err(Timeout) }`
TimedOut(tries) == tries > MaxTries

\* Printer::read, one iteration of the while loop whose read_exact fills the
\* buffer: the loop ends and Ok(buf) is returned.
ReadAttemptOk(r) ==
    /\ rdRes = "none"
    /\ LET avail == devRest \o r
           got   == Take(avail, rdLen)
       IN /\ rdBuf' = got
          /\ rdGot' = rdGot \o got
          /\ devRest' = IF rdLen <= Len(devRest) THEN Drop(devRest, rdLen)
                                                ELSE Drop(avail, rdLen)
    /\ rdAttempts' = rdAttempts + 1
    /\ rdRes' = "Ok"
    /\ log' = Append(BeforeRead, ReadOp(rdLen, Take(devRest \o r, rdLen)))
    /\ UNCHANGED <<rdTries, rdSleeps, partials>>

\* A read that takes whatever one read call delivers and returns Ok(buf)
\* without looking at the count.
ReadAttemptShortOk(r, k) ==
    /\ rdRes = "none"
    /\ k \in ShortLens(rdLen)
    /\ k > 0 => partials < MaxPartial
    /\ partials' = IF k > 0 THEN partials + 1 ELSE partials
    /\ LET avail == devRest \o r
           got   == Take(avail, k)
       IN /\ rdBuf' = got \o Drop(rdBuf, k)
          /\ rdGot' = rdGot \o got
          /\ devRest' = IF k <= Len(devRest) THEN Drop(devRest, k)
                                            ELSE Drop(avail, k)
    /\ rdAttempts' = rdAttempts + 1
    /\ rdRes' = "Ok"
    /\ log' = Append(BeforeRead, ReadOp(rdLen, Take(devRest \o r, k) \o Drop(rdBuf, k)))
    /\ UNCHANGED <<rdTries, rdSleeps>>

\* Printer::read, one iteration whose read_exact fails after k < length
\* bytes: they stay at the start of buf, the thread sleeps, tries is
\* incremented and compared.
ReadAttemptFail(r, k) ==
    /\ rdRes = "none"
    /\ k \in ShortLens(rdLen)
    /\ k > 0 => partials < MaxPartial
    /\ partials' = IF k > 0 THEN partials + 1 ELSE partials
    /\ LET avail == devRest \o r
           got   == Take(avail, k)
       IN /\ rdBuf' = got \o Drop(rdBuf, k)
          /\ rdGot' = rdGot \o got
          /\ devRest' = IF k <= Len(devRest) THEN Drop(devRest, k)
                                            ELSE Drop(avail, k)
    /\ rdAttempts' = rdAttempts + 1
    /\ rdSleeps' = rdSleeps + 1
    /\ rdTries' = rdTries + 1
    /\ rdRes' = IF TimedOut(rdTries + 1) THEN "Err" ELSE "none"
    /\ log' = Append(BeforeRead, ReadOp(rdLen, <<>>))

\* the locals of Printer::read at its entry: vec![0u8; length], tries = 0
ReadEntry(len) ==
    /\ rdLen' = len
    /\ rdTries' = 0
    /\ rdAttempts' = 0
    /\ rdSleeps' = 0
    /\ rdGot' = <<>>
    /\ rdBuf' = Zeros(len)
    /\ rdRes' = "none"
    /\ UNCHANGED partials

------------------------------------------------------------------------------
(* Raster pipeline *)

Undecodable == <<0, 0>>

\* Source images the caller hands to render_image: <<width, height>> of the
\* decoded image, or a file that does not decode.
ImgDims == { <<720, 2>>, <<10, 36>>, Undecodable }

\* n / d rounded to the nearest integer, ties to even
RoundTiesEven(n, d) ==
    LET q == n \div d
        r == n % d
    IN IF 2 * r > d \/ (2 * r = d /\ q % 2 = 1) THEN q + 1 ELSE q

\* if ratio >= 3.5, on the exact quotient
RatioAtLeast(w, h) == 2 * h >= 7 * w

\* let ratio = img.height() as f32 / img.width() as f32; if ratio > 3.5
\* Both casts are exact below 2^24.  The f32 quotient is h / w rounded to a
\* 24-bit significand: in [2, 4) that is a multiple of 2^-22, and
\* 3.5 = 7 * 2^21 * 2^-22; a quotient of 4 or more, or below 2, stays on its
\* side of 3.5 when rounded.  (h * 2^22 needs h < 512 here.)
RatioTooHigh(w, h) ==
    IF h >= 4 * w THEN TRUE
    ELSE IF h < 2 * w THEN FALSE
    ELSE RoundTiesEven(h * (2 ^ 22), w) > 7 * (2 ^ 21)

\* status.pixel_width().unwrap_or_default() as u32
NewWidthOrDefault(st) == pixel_width(st)

\* status.pixel_width().unwrap_or(720) as u32
NewWidth(st) == IF pixel_width(st) = 0 THEN HeadDots ELSE pixel_width(st)

\* new_width * img.height() / img.width() * if settings.dpi_600 { 2 } else { 1 }
NewHeight(new_width, w, h, dpi_600) ==
    ((new_width * h) \div w) * (IF dpi_600 THEN 2 ELSE 1)

\* the cut at `x.0[0] >= 128`
apply_threshold_from_128(pixels) ==
    [i \in 1..Len(pixels) |-> IF pixels[i] >= 128 THEN 255 ELSE 0]

\* apply_threshold on the luminance values of an image, row by row: each
\* pixel becomes 255 if x.0[0] > 128, else 0, and Rgba([i, i, i, 255]) keeps
\* that value in channel 0, the one img_to_lines reads
apply_threshold(pixels) ==
    [i \in 1..Len(pixels) |-> IF pixels[i] > 128 THEN 255 ELSE 0]

\* The binary images resize + dithering/threshold can hand to img_to_lines
\* for a given size: black is the set of <<x, y>> whose luminance is 0.
BinaryImages(w, h) ==
    { [w |-> w, h |-> h, black |-> b] :
        b \in { {},
                {<<0, 0>>},
                {<<w - 8 + x, y>> : x \in 0..7, y \in 0..(h - 1)} } }

\* the row with `line[byte as usize]` for `line[89 - byte as usize]`: byte j
\* collects the dots 8*j..+7
PackRowForward(bimg, y, padding) ==
    LET dot(j, bit) == j * 8 + bit
        weight(j, bit) == IF <<dot(j, bit) - padding, y>> \in bimg.black
                          THEN 2 ^ bit ELSE 0
    IN [b \in 1..LineBytes |->
          weight(b - 1, 0) + weight(b - 1, 1) + weight(b - 1, 2) + weight(b - 1, 3)
        + weight(b - 1, 4) + weight(b - 1, 5) + weight(b - 1, 6) + weight(b - 1, 7)]

\* img_to_lines, one row: byte j of the line collects the dots 8*(89-j)..+7;
\* dot d is column d - padding (line[89 - byte] |= 1 << bit, X = x + padding,
\* byte = X / 8, bit = X % 8).
PackRow(bimg, y, padding) ==
    LET dot(j, bit) == (LineBytes - 1 - j) * 8 + bit
        weight(j, bit) == IF <<dot(j, bit) - padding, y>> \in bimg.black
                          THEN 2 ^ bit ELSE 0
    IN [b \in 1..LineBytes |->
          weight(b - 1, 0) + weight(b - 1, 1) + weight(b - 1, 2) + weight(b - 1, 3)
        + weight(b - 1, 4) + weight(b - 1, 5) + weight(b - 1, 6) + weight(b - 1, 7)]

\* img_to_lines.  `720 - image_width` is u32: with image_width > 720 a debug
\* build panics on the subtraction; a release build wraps, `x + padding`
\* wraps back to x - (image_width - 720) for the columns at or beyond
\* image_width - 720, and for a black pixel left of them `89 - byte` leaves
\* the line: the index panics.
img_to_lines(bimg, image_width, bld) ==
    LET padding == HeadDots - image_width IN
    IF padding < 0 /\ bld = "debug"
    THEN [kind |-> "panic", msg |-> "attempt to subtract with overflow"]
    ELSE IF \E p \in bimg.black : p[1] + padding < 0
    THEN [kind |-> "panic", msg |-> "index out of bounds"]
    ELSE [kind |-> "lines",
          lines |-> [y \in 1..bimg.h |-> PackRow(bimg, y - 1, padding)]]

------------------------------------------------------------------------------
(* Callers: brother_ql_cli main, printer_bot_rs print_picture *)

Idle == [fn |-> "none", res |-> "none"]
Running(f) == [fn |-> f, res |-> "running"]
Ended(f, r) == [fn |-> f, res |-> r]

SessionUnchanged == UNCHANGED <<build, settings, task, result>>

\* what only Printer::read changes
ReadIdle == UNCHANGED <<rdLen, rdTries, rdAttempts, rdSleeps, rdGot, rdBuf, rdRes, partials>>

\* main / print_picture: render_image(&file_path, &settings) is called with
\* the next image
StartJob ==
    /\ pc = "idle"
    /\ jobs < MaxJobs
    /\ jobs' = jobs + 1
    /\ img' \in ImgDims
    /\ pc' = "ri_begin"
    /\ outcome' = Running("render_image")
    /\ status' = NoStatus
    /\ lines' = <<>>
    /\ lineIdx' = 0
    /\ log' = <<>>
    /\ ReadIdle
    /\ UNCHANGED <<open, devRest>>
    /\ SessionUnchanged

------------------------------------------------------------------------------
(* render_image *)

\* ImageReader::open(file_path)?.decode()? fails
RenderDecodeErr ==
    /\ pc = "ri_begin"
    /\ img = Undecodable
    /\ outcome' = Ended("render_image", "Err_Image")
    /\ pc' = "idle"
    /\ ReadIdle
    /\ UNCHANGED <<jobs, img, open, log, devRest, status, lines, lineIdx>>
    /\ SessionUnchanged

\* the ratio check made after the status read instead of before it
RenderInvalidImageAfterRead ==
    /\ pc = "ri_begin"
    /\ img # Undecodable
    /\ RatioTooHigh(img[1], img[2])
    /\ outcome' = Ended("render_image", "Err_InvalidImage")
    /\ pc' = "idle"
    /\ log' = <<ReadOp(StatusLen, Zeros(StatusLen))>>
    /\ ReadIdle
    /\ UNCHANGED <<jobs, img, open, devRest, status, lines, lineIdx>>
    /\ SessionUnchanged

\* if ratio > 3.5 { return Err(BrotherQlError::InvalidImage) }
RenderInvalidImage ==
    /\ pc = "ri_begin"
    /\ img # Undecodable
    /\ RatioTooHigh(img[1], img[2])
    /\ outcome' = Ended("render_image", "Err_InvalidImage")
    /\ pc' = "idle"
    /\ ReadIdle
    /\ UNCHANGED <<jobs, img, open, log, devRest, status, lines, lineIdx>>
    /\ SessionUnchanged

\* driver::PrinterCommander::main("/dev/usb/lp0")? succeeds; the next
\* statement is printer.read_status()
RenderOpenOk ==
    /\ pc = "ri_begin"
    /\ img # Undecodable
    /\ ~RatioTooHigh(img[1], img[2])
    /\ open' = OpenHandle(open)
    /\ log' = <<>>
    /\ pc' = "ri_status"
    /\ ReadEntry(StatusLen)
    /\ UNCHANGED <<jobs, img, devRest, status, lines, lineIdx, outcome>>
    /\ SessionUnchanged

\* driver::PrinterCommander::main("/dev/usb/lp0")? fails
RenderOpenErr ==
    /\ pc = "ri_begin"
    /\ img # Undecodable
    /\ ~RatioTooHigh(img[1], img[2])
    /\ outcome' = Ended("render_image", "Err_Io")
    /\ pc' = "idle"
    /\ ReadIdle
    /\ UNCHANGED <<jobs, img, open, log, devRest, status, lines, lineIdx>>
    /\ SessionUnchanged

\* resize, dithering or threshold, save, img_to_lines, Ok(lines); `printer`
\* is dropped at the end of the function.  The caller goes on to print_lines.
RenderFinish ==
    /\ pc = "ri_resize"
    /\ LET new_width  == NewWidth(status)
           new_height == NewHeight(new_width, img[1], img[2], settings.dpi_600)
       IN \E bimg \in BinaryImages(new_width, new_height) :
            LET r == img_to_lines(bimg, new_width, build) IN
            IF r.kind = "panic"
            THEN /\ pc' = "panicked"
                 /\ outcome' = Ended("render_image", "panic")
                 /\ lines' = lines
            ELSE /\ pc' = "pl_begin"
                 /\ outcome' = Ended("render_image", "Ok")
                 /\ lines' = r.lines
    /\ open' = CloseHandle(open)
    /\ ReadIdle
    /\ UNCHANGED <<jobs, img, log, devRest, status, lineIdx>>
    /\ SessionUnchanged

\* dithered_img.save("/tmp/out_processed.png")? fails
RenderSaveErr ==
    /\ pc = "ri_resize"
    /\ outcome' = Ended("render_image", "Err_Image")
    /\ pc' = "idle"
    /\ open' = CloseHandle(open)
    /\ ReadIdle
    /\ UNCHANGED <<jobs, img, log, devRest, status, lines, lineIdx>>
    /\ SessionUnchanged

------------------------------------------------------------------------------
(* read_status, as called by render_image and print_lines *)

\* the statements that call printer.read_status()
ReadPcs == {"ri_status", "pl_status", "pl_drain1", "pl_drain2", "pl_drain3"}

\* the statement after each call
AfterRead(p) ==
    CASE p = "ri_status" -> "ri_resize"
      [] p = "pl_status" -> "pl_cmdmode"
      [] p = "pl_drain1" -> "pl_drain2"
      [] p = "pl_drain2" -> "pl_drain3"
      [] p = "pl_drain3" -> "pl_ret"

FnOf(p) == IF p \in {"ri_begin", "ri_status", "ri_resize"} THEN "render_image"
                                                           ELSE "print_lines"

\* self.fd.read_exact(buf) inside Printer::read, while read_status waits.
\* In a session the printer hands over a whole reply or has nothing to say
\* yet; replies that arrive in pieces are explored in SpecRead.
ReadExact ==
    /\ pc \in ReadPcs
    /\ \/ \E r \in SessionReplies : ReadAttemptOk(r)
       \/ ReadAttemptFail(<<>>, 0)
    /\ UNCHANGED <<pc, jobs, img, open, status, lines, lineIdx, outcome, rdLen>>
    /\ SessionUnchanged

\* read_status returns Ok(PrinterStatus); `let status =` keeps it in
\* render_image and at the first read of print_lines, trace! drops it after
\* the three last reads.  The next statement of print_lines that reads
\* enters Printer::read again.
ReadStatusOk ==
    /\ pc \in ReadPcs
    /\ rdRes = "Ok"
    /\ DecodeStatus(rdBuf).kind = "status"
    /\ status' = IF pc \in {"ri_status", "pl_status"} THEN DecodeStatus(rdBuf) ELSE status
    /\ pc' = AfterRead(pc)
    /\ ReadEntry(StatusLen)
    /\ UNCHANGED <<jobs, img, open, log, devRest, lines, lineIdx, outcome>>
    /\ SessionUnchanged

\* read_status panics on an assertion or on an unmatched code: the panic
\* unwinds through the caller (dropping `printer`) and ends the process
ReadStatusPanic ==
    /\ pc \in ReadPcs
    /\ rdRes = "Ok"
    /\ DecodeStatus(rdBuf).kind = "panic"
    /\ outcome' = Ended(FnOf(pc), "panic")
    /\ pc' = "panicked"
    /\ open' = CloseHandle(open)
    /\ ReadIdle
    /\ UNCHANGED <<jobs, img, log, devRest, status, lines, lineIdx>>
    /\ SessionUnchanged

\* self.printer.read(32)? returned Err(Timeout): `?` in read_status, then
\* `?` in the caller
ReadStatusErr ==
    /\ pc \in ReadPcs
    /\ rdRes = "Err"
    /\ outcome' = Ended(FnOf(pc), "Err_Io")
    /\ pc' = "idle"
    /\ open' = CloseHandle(open)
    /\ ReadIdle
    /\ UNCHANGED <<jobs, img, log, devRest, status, lines, lineIdx>>
    /\ SessionUnchanged

------------------------------------------------------------------------------
(* print_lines *)

\* the index of the last line for the number of lines
LastIndexAsI32(n) == n - 1

\* `lines.len() as i32`: every length the model can hold is below 2^31
UsizeAsI32(n) == n

\* the statements that call printer.send_command
WritePcs == {"pl_reset", "pl_init", "pl_statusreq", "pl_cmdmode", "pl_printinfo",
             "pl_expanded", "pl_mode", "pl_page", "pl_margin", "pl_lines", "pl_print"}

\* the commands of print_lines with the document sent last line first
PlCmdReversed(p) ==
    CASE p = "pl_reset"     -> Cmd("Reset")
      [] p = "pl_init"      -> Cmd("Initialize")
      [] p = "pl_statusreq" -> Cmd("StatusInfoRequest")
      [] p = "pl_cmdmode"   -> [tag |-> "SetCommandMode", mode |-> "Raster"]
      [] p = "pl_printinfo" -> [tag |-> "SetPrintInformation", status |-> status,
                                line_count |-> Len(lines)]
      [] p = "pl_expanded"  -> [tag |-> "SetExpandedMode",
                                cut_at_end |-> settings.auto_cut,
                                high_resolution_printing |-> settings.dpi_600]
      [] p = "pl_mode"      -> [tag |-> "SetMode", auto_cut |-> settings.auto_cut]
      [] p = "pl_page"      -> [tag |-> "SetPageNumber", page_number |-> 1]
      [] p = "pl_margin"    -> [tag |-> "SetMarginAmount", margin |-> 0]
      [] p = "pl_lines"     -> [tag |-> "RasterGraphicsTransfer",
                                data |-> lines[Len(lines) - lineIdx]]
      [] p = "pl_print"     -> Cmd("PrintWithFeeding")

\* the command each statement builds
PlCmd(p) ==
    CASE p = "pl_reset"     -> Cmd("Reset")
      [] p = "pl_init"      -> Cmd("Initialize")
      [] p = "pl_statusreq" -> Cmd("StatusInfoRequest")
      [] p = "pl_cmdmode"   -> [tag |-> "SetCommandMode", mode |-> "Raster"]
      [] p = "pl_printinfo" -> [tag |-> "SetPrintInformation", status |-> status,
                                line_count |-> UsizeAsI32(Len(lines))]
      [] p = "pl_expanded"  -> [tag |-> "SetExpandedMode",
                                cut_at_end |-> settings.auto_cut,
                                high_resolution_printing |-> settings.dpi_600]
      [] p = "pl_mode"      -> [tag |-> "SetMode", auto_cut |-> settings.auto_cut]
      [] p = "pl_page"      -> [tag |-> "SetPageNumber", page_number |-> 1]
      [] p = "pl_margin"    -> [tag |-> "SetMarginAmount", margin |-> 0]
      [] p = "pl_lines"     -> [tag |-> "RasterGraphicsTransfer", data |-> lines[lineIdx + 1]]
      [] p = "pl_print"     -> Cmd("PrintWithFeeding")

\* the statement after each send_command(..)? that returned Ok; `for line in
\* lines` runs once per line
PlNext(p) ==
    CASE p = "pl_reset"     -> "pl_init"
      [] p = "pl_init"      -> "pl_statusreq"
      [] p = "pl_statusreq" -> "pl_status"
      [] p = "pl_cmdmode"   -> "pl_printinfo"
      [] p = "pl_printinfo" -> "pl_expanded"
      [] p = "pl_expanded"  -> "pl_mode"
      [] p = "pl_mode"      -> "pl_page"
      [] p = "pl_page"      -> "pl_margin"
      [] p = "pl_margin"    -> IF Len(lines) = 0 THEN "pl_print" ELSE "pl_lines"
      [] p = "pl_lines"     -> IF lineIdx + 1 < Len(lines) THEN "pl_lines" ELSE "pl_print"
      [] p = "pl_print"     -> "pl_drain1"

\* driver::PrinterCommander::main("/dev/usb/lp0")? succeeds
PrintOpenOk ==
    /\ pc = "pl_begin"
    /\ open' = OpenHandle(open)
    /\ log' = <<>>
    /\ pc' = "pl_reset"
    /\ outcome' = Running("print_lines")
    /\ status' = NoStatus
    /\ ReadIdle
    /\ UNCHANGED <<jobs, img, devRest, lines, lineIdx>>
    /\ SessionUnchanged

\* driver::PrinterCommander::main("/dev/usb/lp0")? fails
PrintOpenErr ==
    /\ pc = "pl_begin"
    /\ outcome' = Ended("print_lines", "Err_Io")
    /\ pc' = "idle"
    /\ status' = NoStatus
    /\ log' = <<>>
    /\ ReadIdle
    /\ UNCHANGED <<jobs, img, open, devRest, lines, lineIdx>>
    /\ SessionUnchanged

\* printer.send_command(c)? with write_all writing every byte
SendCommandOk ==
    /\ pc \in WritePcs
    /\ log' = Append(log, WriteOp(PlCmd(pc), to_bytes(PlCmd(pc)), TRUE))
    /\ pc' = PlNext(pc)
    /\ lineIdx' = IF pc = "pl_lines" THEN lineIdx + 1 ELSE lineIdx
    /\ IF PlNext(pc) \in ReadPcs THEN ReadEntry(StatusLen) ELSE ReadIdle
    /\ UNCHANGED <<jobs, img, open, devRest, status, lines, outcome>>
    /\ SessionUnchanged

\* send_command(c) with its error ignored: the next statement runs
SendCommandErrIgnored ==
    /\ pc \in WritePcs
    /\ \E k \in PartialWrites(to_bytes(PlCmd(pc))) :
         log' = Append(log, WriteOp(PlCmd(pc), Take(to_bytes(PlCmd(pc)), k), FALSE))
    /\ pc' = PlNext(pc)
    /\ lineIdx' = IF pc = "pl_lines" THEN lineIdx + 1 ELSE lineIdx
    /\ IF PlNext(pc) \in ReadPcs THEN ReadEntry(StatusLen) ELSE ReadIdle
    /\ UNCHANGED <<jobs, img, open, devRest, status, lines, outcome>>
    /\ SessionUnchanged

\* printer.send_command(c)? with write_all failing after k bytes: `?`
\* returns the error and drops `printer`
SendCommandErr ==
    /\ pc \in WritePcs
    /\ \E k \in PartialWrites(to_bytes(PlCmd(pc))) :
         log' = Append(log, WriteOp(PlCmd(pc), Take(to_bytes(PlCmd(pc)), k), FALSE))
    /\ outcome' = Ended("print_lines", "Err_Io")
    /\ pc' = "idle"
    /\ open' = CloseHandle(open)
    /\ ReadIdle
    /\ UNCHANGED <<jobs, img, devRest, status, lines, lineIdx>>
    /\ SessionUnchanged

\* Ok(()) at the end of print_lines; `printer` is dropped
PrintReturn ==
    /\ pc = "pl_ret"
    /\ outcome' = Ended("print_lines", "Ok")
    /\ pc' = "idle"
    /\ open' = CloseHandle(open)
    /\ ReadIdle
    /\ UNCHANGED <<jobs, img, log, devRest, status, lines, lineIdx>>
    /\ SessionUnchanged

------------------------------------------------------------------------------
(* The CLI and the bot, from process start *)

\* the Settings both callers build, and the opposite choice of each field
SettingsSet == { [dpi_600 |-> FALSE, auto_cut |-> TRUE, dithering |-> TRUE],
                 [dpi_600 |-> TRUE, auto_cut |-> FALSE, dithering |-> FALSE] }

Init ==
    /\ pc = "idle"
    /\ jobs = 0
    /\ build \in {"debug", "release"}
    /\ settings \in SettingsSet
    /\ img = Undecodable
    /\ open = 0
    /\ log = <<>>
    /\ devRest = <<>>
    /\ rdLen = StatusLen
    /\ rdTries = 0
    /\ rdAttempts = 0
    /\ rdSleeps = 0
    /\ rdGot = <<>>
    /\ rdBuf = Zeros(StatusLen)
    /\ rdRes = "none"
    /\ partials = 0
    /\ status = NoStatus
    /\ lines = <<>>
    /\ lineIdx = 0
    /\ outcome = Idle
    /\ task = <<>>
    /\ result = <<>>

Next ==
    \/ StartJob
    \/ RenderDecodeErr
    \/ RenderInvalidImage
    \/ RenderOpenOk
    \/ RenderOpenErr
    \/ ReadExact
    \/ ReadStatusOk
    \/ ReadStatusPanic
    \/ ReadStatusErr
    \/ RenderFinish
    \/ RenderSaveErr
    \/ PrintOpenOk
    \/ PrintOpenErr
    \/ SendCommandOk
    \/ SendCommandErr
    \/ PrintReturn

Spec == Init /\ [][Next]_vars

------------------------------------------------------------------------------
(* Printer::read on its own: any length, replies that arrive in pieces *)

\* calls of Printer::read made on one handle
MaxReads == 2

ReadLens == {0, 1, StatusLen}

\* what the printer sends while the handle is read
ReadReplies ==
    { MkReply(128, 32, 0, 0, 62, 10, 0, 0, 0, 0),
      MkReply(128, 32, 1, 4, 99, 11, 99, 1, 1, 255) }

ReadUnchanged ==
    UNCHANGED <<build, settings, img, open, status, lines, lineIdx, outcome, task, result>>

\* one iteration of the while loop of Printer::read
ReadCallExact ==
    /\ pc = "rd_call"
    /\ \/ \E r \in ReadReplies : ReadAttemptOk(r)
       \/ \E r \in ReadReplies, k \in ShortSamples : ReadAttemptFail(r, k)
    /\ UNCHANGED <<pc, jobs, rdLen>>
    /\ ReadUnchanged

\* the caller, having got Ok(buf) or Err(Timeout), calls read again
ReadCallAgain ==
    /\ pc = "rd_call"
    /\ rdRes # "none"
    /\ jobs < MaxReads
    /\ jobs' = jobs + 1
    /\ \E len \in ReadLens : ReadEntry(len)
    /\ UNCHANGED <<pc, log, devRest>>
    /\ ReadUnchanged

InitRead ==
    /\ pc = "rd_call"
    /\ jobs = 1
    /\ build = "release"
    /\ settings \in SettingsSet
    /\ img = Undecodable
    /\ open = 1
    /\ log = <<>>
    /\ devRest = <<>>
    /\ rdLen \in ReadLens
    /\ rdTries = 0
    /\ rdAttempts = 0
    /\ rdSleeps = 0
    /\ rdGot = <<>>
    /\ rdBuf = Zeros(rdLen)
    /\ rdRes = "none"
    /\ partials = 0
    /\ status = NoStatus
    /\ lines = <<>>
    /\ lineIdx = 0
    /\ outcome = Idle
    /\ task = <<>>
    /\ result = <<>>

NextRead == ReadCallExact \/ ReadCallAgain

SpecRead == InitRead /\ [][NextRead]_vars

------------------------------------------------------------------------------
(* The two codecs on their own: to_bytes on every variant, read_status'
   decoding on replies built byte by byte *)

PlainTags == {"Reset", "Invalid", "Initialize", "StatusInfoRequest",
              "SetCompressionMode", "ZeroRasterGraphics", "Print", "PrintWithFeeding"}

CommandModes == {"EscpNormal", "Raster", "EscpText", "PtouchTemplate"}

U16Samples == {0, 1, 255, 256, 258, 4660, 32768, 65535}

LineSamples == { Zeros(LineBytes),
                 [i \in 1..LineBytes |-> 255],
                 [i \in 1..LineBytes |-> i] }

\* line counts in 0 .. 2^31 - 1
LineCounts == {0, 1, 16909060, 2147483647}

CodecReplies ==
    { MkReply(b0, b1, e[1], e[2], g[1], b11, g[2], b18, b19, fill) :
        b0 \in {128, 0}, b1 \in {32, 33},
        e \in {<<0, 0>>, <<255, 255>>, <<104, 43>>},
        g \in {<<62, 0>>, <<12, 0>>, <<17, 54>>, <<99, 99>>, <<12, 12>>, <<102, 0>>},
        b11 \in {0, 10, 11, 7},
        b18 \in {0, 1, 2, 5, 6, 3},
        b19 \in {0, 1, 2},
        fill \in {0, 255} }

\* PrinterCommand values of every variant, a few parameter values of each,
\* to encode two at a time
PairSamples ==
    {Cmd(t) : t \in PlainTags}
    \cup {[tag |-> "SetCommandMode", mode |-> m] : m \in CommandModes}
    \cup {[tag |-> "SetMode", auto_cut |-> b] : b \in BOOLEAN}
    \cup {[tag |-> "SetPageNumber", page_number |-> n] : n \in {0, 27, 255}}
    \cup {[tag |-> "SetExpandedMode", cut_at_end |-> c, high_resolution_printing |-> h] :
             c \in BOOLEAN, h \in BOOLEAN}
    \cup {[tag |-> "SetMarginAmount", margin |-> n] : n \in {0, 27, 65535}}
    \cup {[tag |-> "RasterGraphicsTransfer", data |-> l] : l \in LineSamples}
    \cup {[tag |-> "SetBaudRate", baud_rate |-> n] : n \in {0, 27, 65535}}
    \cup {[tag |-> "SetPrintInformation",
           status |-> DecodeStatus(MkReply(128, 32, 0, 0, g[1], t, g[2], 0, 0, 0)),
           line_count |-> n] :
             g \in {<<62, 0>>, <<17, 54>>}, t \in {10, 11}, n \in {0, 2147483647}}

EncodeTask(c) == [kind |-> "encode", cmd |-> c]
PairTask(c, d) == [kind |-> "pair", cmd |-> c, other |-> d]
GeometryTask(r) == [kind |-> "geometry", reply |-> r]


\* two choices of everything in a valid reply but its geometry: error bytes
\* and unused offsets, media type, status type, phase
GeometryOthers == {<<0, 10, 0, 0>>, <<255, 11, 6, 1>>}

\* the valid reply of media width w and media length l
GeometryReply(w, l, o) == MkReply(128, 32, o[1], o[1], w, o[2], l, o[3], o[4], o[1])

DecodeTask(r, n) == [kind |-> "decode", reply |-> r, line_count |-> n]
Pending == [kind |-> "pending"]

CodecUnchanged ==
    UNCHANGED <<pc, jobs, build, settings, img, open, log, devRest, rdLen, rdTries,
                rdAttempts, rdSleeps, rdGot, rdBuf, rdRes, partials, status, lines,
                lineIdx, outcome, task>>

\* command.to_bytes()
CodecEncode ==
    /\ task.kind = "encode"
    /\ result = Pending
    /\ result' = [kind |-> "bytes", bytes |-> to_bytes(task.cmd)]
    /\ CodecUnchanged

\* two commands encoded one after the other
CodecEncodePair ==
    /\ task.kind = "pair"
    /\ result = Pending
    /\ result' = [kind |-> "pair", bytes |-> to_bytes(task.cmd),
                  other |-> to_bytes(task.other)]
    /\ CodecUnchanged

\* render_image: status.pixel_width().unwrap_or(720) on the status that
\* read_status returned
CodecPixelWidth ==
    /\ task.kind = "geometry"
    /\ result = Pending
    /\ LET st == DecodeStatus(task.reply)
       IN result' = [kind |-> "width", pixel_width |-> pixel_width(st),
                     new_width |-> NewWidth(st)]
    /\ CodecUnchanged

\* read_status on a reply that Printer::read returned
CodecDecode ==
    /\ task.kind = "decode"
    /\ result = Pending
    /\ result' = DecodeStatus(task.reply)
    /\ CodecUnchanged

\* PrinterCommand::SetPrintInformation(status, line_count).to_bytes() with
\* the status read_status returned
CodecPrintInformation ==
    /\ task.kind = "decode"
    /\ result.kind = "status"
    /\ result' = [kind   |-> "printinfo",
                  status |-> result,
                  bytes  |-> to_bytes([tag |-> "SetPrintInformation", status |-> result,
                                       line_count |-> task.line_count])]
    /\ CodecUnchanged

InitCodec ==
    /\ pc = "codec"
    /\ jobs = 0
    /\ build = "release"
    /\ settings = [dpi_600 |-> FALSE, auto_cut |-> TRUE, dithering |-> TRUE]
    /\ img = Undecodable
    /\ open = 0
    /\ log = <<>>
    /\ devRest = <<>>
    /\ rdLen = StatusLen
    /\ rdTries = 0
    /\ rdAttempts = 0
    /\ rdSleeps = 0
    /\ rdGot = <<>>
    /\ rdBuf = Zeros(StatusLen)
    /\ rdRes = "none"
    /\ partials = 0
    /\ status = NoStatus
    /\ lines = <<>>
    /\ lineIdx = 0
    /\ outcome = Idle
    /\ result = Pending
    /\ \/ \E t \in PlainTags : task = EncodeTask(Cmd(t))
       \/ \E m \in CommandModes : task = EncodeTask([tag |-> "SetCommandMode", mode |-> m])
       \/ \E b \in BOOLEAN : task = EncodeTask([tag |-> "SetMode", auto_cut |-> b])
       \/ \E n \in Byte : task = EncodeTask([tag |-> "SetPageNumber", page_number |-> n])
       \/ \E c \in BOOLEAN, h \in BOOLEAN :
             task = EncodeTask([tag |-> "SetExpandedMode", cut_at_end |-> c,
                                high_resolution_printing |-> h])
       \/ \E n \in U16Samples : task = EncodeTask([tag |-> "SetMarginAmount", margin |-> n])
       \/ \E l \in LineSamples : task = EncodeTask([tag |-> "RasterGraphicsTransfer", data |-> l])
       \/ \E n \in U16Samples : task = EncodeTask([tag |-> "SetBaudRate", baud_rate |-> n])
       \/ \E r \in CodecReplies, n \in LineCounts : task = DecodeTask(r, n)
       \/ \E c \in PairSamples, d \in PairSamples : task = PairTask(c, d)
       \/ \E w \in Byte, l \in Byte, o \in GeometryOthers :
             task = GeometryTask(GeometryReply(w, l, o))

NextCodec ==
    CodecEncode \/ CodecEncodePair \/ CodecDecode \/ CodecPrintInformation \/ CodecPixelWidth

SpecCodec == InitCodec /\ [][NextCodec]_vars

------------------------------------------------------------------------------
(* The raster pipeline's computations on their own: img_to_lines on binary
   images of several widths *)

\* widths of the image handed to img_to_lines, up to the 720 dots of the head
\* and one byte beyond
PackWidths == {8, 113, 712, 720, 728}

\* binary images of width w and height h: white, the first 8 columns of the
\* first row, the two corners, black, every third column of the last row
PackImages(w, h) ==
    { [w |-> w, h |-> h, black |-> b] :
        b \in { {},
                {<<x, 0>> : x \in 0..7},
                {<<0, 0>>, <<w - 1, h - 1>>},
                {<<w - 1, 0>>},
                (0..(w - 1)) \X (0..(h - 1)),
                {<<3 * x, h - 1>> : x \in 0..((w - 1) \div 3)} } }

PackTask(bimg, bld) == [kind |-> "pack", bimg |-> bimg, build |-> bld]

\* <<width, height>> of decoded images: every small size, and larger ones
\* around height / width = 3.5
GateSizes ==
    ((1..40) \X (1..150))
    \cup { <<w, h>> \in (100..146) \X (340..511) : 2 * h - 7 * w \in -2..2 }

GateTask(w, h) == [kind |-> "gate", w |-> w, h |-> h]

\* target widths render_image resizes to: 29 mm, 62 mm and 102 mm media
TargetWidths == {336, 720, 1188}

HeightTask(nw, w, h, d) == [kind |-> "height", new_width |-> nw, w |-> w, h |-> h, dpi_600 |-> d]

\* grayscale images as luminance values: every single pixel, and rows around
\* the cut
ThresholdImages ==
    { <<v>> : v \in Byte }
    \cup { <<0, 127, 128, 129, 255>>, <<128, 128>>, <<129, 0, 128>> }

ThresholdTask(p) == [kind |-> "threshold", pixels |-> p]

RasterUnchanged ==
    UNCHANGED <<pc, jobs, build, settings, img, open, log, devRest, rdLen, rdTries,
                rdAttempts, rdSleeps, rdGot, rdBuf, rdRes, partials, status, lines,
                lineIdx, outcome, task>>

\* img_to_lines(dithered_img, new_width)
RasterPack ==
    /\ task.kind = "pack"
    /\ result = Pending
    /\ result' = img_to_lines(task.bimg, task.bimg.w, task.build)
    /\ RasterUnchanged

\* the ratio check of render_image
RasterGate ==
    /\ task.kind = "gate"
    /\ result = Pending
    /\ result' = [kind |-> "gate", rejected |-> RatioTooHigh(task.w, task.h)]
    /\ RasterUnchanged

\* let new_height = ...
RasterHeight ==
    /\ task.kind = "height"
    /\ result = Pending
    /\ result' = [kind |-> "height",
                  new_height |-> NewHeight(task.new_width, task.w, task.h, task.dpi_600)]
    /\ RasterUnchanged

\* apply_threshold(img)
RasterThreshold ==
    /\ task.kind = "threshold"
    /\ result = Pending
    /\ result' = [kind |-> "binary", pixels |-> apply_threshold(task.pixels)]
    /\ RasterUnchanged

\* apply_threshold on the image apply_threshold returned
RasterThresholdAgain ==
    /\ task.kind = "threshold"
    /\ result.kind = "binary"
    /\ result' = [kind |-> "binary2", once |-> result.pixels,
                  pixels |-> apply_threshold(result.pixels)]
    /\ RasterUnchanged

InitRaster ==
    /\ pc = "raster"
    /\ jobs = 0
    /\ build = "release"
    /\ settings = [dpi_600 |-> FALSE, auto_cut |-> TRUE, dithering |-> TRUE]
    /\ img = Undecodable
    /\ open = 0
    /\ log = <<>>
    /\ devRest = <<>>
    /\ rdLen = StatusLen
    /\ rdTries = 0
    /\ rdAttempts = 0
    /\ rdSleeps = 0
    /\ rdGot = <<>>
    /\ rdBuf = Zeros(StatusLen)
    /\ rdRes = "none"
    /\ partials = 0
    /\ status = NoStatus
    /\ lines = <<>>
    /\ lineIdx = 0
    /\ outcome = Idle
    /\ result = Pending
    /\ \/ \E w \in PackWidths, h \in {1, 2, 3}, bld \in {"debug", "release"} :
             \E bimg \in PackImages(w, h) : task = PackTask(bimg, bld)
       \/ \E g \in GateSizes : task = GateTask(g[1], g[2])
       \/ \E nw \in TargetWidths, w \in 1..12, h \in 1..40, d \in BOOLEAN :
             /\ ~RatioTooHigh(w, h)
             /\ task = HeightTask(nw, w, h, d)
       \/ \E p \in ThresholdImages : task = ThresholdTask(p)

NextRaster ==
    \/ RasterPack
    \/ RasterGate
    \/ RasterHeight
    \/ RasterThreshold
    \/ RasterThresholdAgain

SpecRaster == InitRaster /\ [][NextRaster]_vars

------------------------------------------------------------------------------
(* Properties of Printer::read, under SpecRead *)

\* C3: when every read_exact attempt fails, read returns the Timeout error
\* after 10 failed attempts, having slept at most 10 times 10 ms (100 ms).
\* The loop's test `tries > 10` lets an 11th attempt and an 11th sleep happen.
C3_TimeoutAfterTenAttempts ==
    rdRes = "Err" => /\ rdAttempts = 10
                     /\ rdSleeps <= 10
                     /\ rdSleeps * SleepMs <= 100

\* C4: read returns Ok only with a buffer of exactly the requested length,
\* every byte of which the device delivered to the attempt that succeeded;
\* an attempt that delivers fewer bytes never ends the call with Ok.
C4_ExactLengthOrError ==
    rdRes = "Ok" => /\ Len(rdBuf) = rdLen
                    /\ Len(rdGot) >= rdLen
                    /\ rdBuf = Drop(rdGot, Len(rdGot) - rdLen)

\* a 32-byte read that succeeds after the device cut an earlier attempt short
C4_Witness ==
    /\ pc = "rd_call"
    /\ rdRes = "Ok"
    /\ rdLen = StatusLen
    /\ partials > 0
    /\ rdAttempts > 1

------------------------------------------------------------------------------
(* Properties of the codecs, under SpecCodec *)

\* bytes i and i+1 of b are the low byte, then the high byte, of n
LowThenHigh(b, i, n) ==
    /\ b[i] \in Byte
    /\ b[i + 1] \in Byte
    /\ b[i] + 256 * b[i + 1] = n

\* the numeric code of each command mode in the encoding table
ModeCode(m) ==
    CASE m = "EscpNormal"     -> 0
      [] m = "Raster"         -> 1
      [] m = "EscpText"       -> 2
      [] m = "PtouchTemplate" -> 3

\* the encoding table, row by row (1B = 27, 69 = 105)
EncodingTable(c, b) ==
    CASE c.tag = "Reset"              -> Len(b) = 200 /\ \A i \in 1..200 : b[i] = 0
      [] c.tag = "Invalid"            -> b = <<0>>
      [] c.tag = "Initialize"         -> b = <<27, 64>>
      [] c.tag = "StatusInfoRequest"  -> b = <<27, 105, 83>>
      [] c.tag = "SetCommandMode"     -> b = <<27, 105, 97, ModeCode(c.mode)>>
      [] c.tag = "SetMode"            -> b = <<27, 105, 77, IF c.auto_cut THEN 64 ELSE 0>>
      [] c.tag = "SetPageNumber"      -> b = <<27, 105, 65, c.page_number>>
      [] c.tag = "SetExpandedMode"    ->
            b = <<27, 105, 75, (IF c.cut_at_end THEN 16 ELSE 0)
                               + (IF c.high_resolution_printing THEN 64 ELSE 0)>>
      [] c.tag = "SetMarginAmount"    ->
            Len(b) = 5 /\ Take(b, 3) = <<27, 105, 100>> /\ LowThenHigh(b, 4, c.margin)
      [] c.tag = "SetCompressionMode" -> b = <<77, 0>>
      [] c.tag = "RasterGraphicsTransfer" ->
            /\ Len(b) = 93
            /\ Take(b, 3) = <<103, 0, 90>>
            /\ \A i \in 1..90 : b[3 + i] = c.data[i]
      [] c.tag = "ZeroRasterGraphics" -> b = <<90>>
      [] c.tag = "Print"              -> b = <<12>>
      [] c.tag = "PrintWithFeeding"   -> b = <<26>>
      [] c.tag = "SetBaudRate"        ->
            Len(b) = 5 /\ Take(b, 3) = <<27, 105, 66>> /\ LowThenHigh(b, 4, c.baud_rate)

\* C9: for a validly decoded reply r and a line count n in 0..2^31-1,
\* SetPrintInformation(decode(r), n) encodes to 13 bytes: 1B 69 7A CE, r[11],
\* r[10], r[17], n as 4 little-endian bytes, 01 00.
C9_PrintInformationEchoesReply ==
    result.kind = "printinfo" =>
        LET b == result.bytes
            r == task.reply
        IN /\ Len(b) = 13
           /\ Take(b, 4) = <<27, 105, 122, 206>>
           /\ b[5] = At(r, 11)
           /\ b[6] = At(r, 10)
           /\ b[7] = At(r, 17)
           /\ \A i \in 8..11 : b[i] \in Byte
           /\ b[8] + 256 * b[9] + 65536 * b[10] + 16777216 * b[11] = task.line_count
           /\ b[12] = 1
           /\ b[13] = 0

\* a die-cut 17x54 reply echoed with the largest line count
C9_Witness ==
    /\ result.kind = "printinfo"
    /\ task.line_count = 2147483647
    /\ At(task.reply, 11) = 11
    /\ At(task.reply, 10) = 17
    /\ At(task.reply, 17) = 54

\* C10: to_bytes of every variant other than SetPrintInformation is the byte
\* sequence the encoding table gives for it, for every parameter value.
C10_EncodingTable ==
    result.kind = "bytes" => EncodingTable(task.cmd, result.bytes)

\* SetMarginAmount(256) encoded as 1B 69 64 00 01
C10_Witness ==
    /\ result.kind = "bytes"
    /\ task.cmd = [tag |-> "SetMarginAmount", margin |-> 256]
    /\ result.bytes = <<27, 105, 100, 0, 1>>

------------------------------------------------------------------------------
(* Properties of render_image and print_lines, under Spec *)

\* the handshake as the orchestrator's contract lists it, for a document of
\* Len(lines) lines: position i holds a status read ...
HandshakeReads(i) == i = 4 \/ i \in (Len(lines) + 12)..(Len(lines) + 14)

\* ... or the write of this command
HandshakeCmd(i) ==
    CASE i = 1  -> Cmd("Reset")
      [] i = 2  -> Cmd("Initialize")
      [] i = 3  -> Cmd("StatusInfoRequest")
      [] i = 5  -> [tag |-> "SetCommandMode", mode |-> "Raster"]
      [] i = 6  -> [tag |-> "SetPrintInformation", status |-> DecodeStatus(log[4].buf),
                    line_count |-> Len(lines)]
      [] i = 7  -> [tag |-> "SetExpandedMode", cut_at_end |-> settings.auto_cut,
                    high_resolution_printing |-> settings.dpi_600]
      [] i = 8  -> [tag |-> "SetMode", auto_cut |-> settings.auto_cut]
      [] i = 9  -> [tag |-> "SetPageNumber", page_number |-> 1]
      [] i = 10 -> [tag |-> "SetMarginAmount", margin |-> 0]
      [] i \in 11..(Len(lines) + 10) -> [tag |-> "RasterGraphicsTransfer", data |-> lines[i - 10]]
      [] i = Len(lines) + 11 -> Cmd("PrintWithFeeding")

\* log entry i is step i of the handshake, carried out in full
StepDone(i) ==
    IF HandshakeReads(i)
    THEN log[i].op = "read" /\ log[i].len = 32 /\ Len(log[i].buf) = 32
    ELSE /\ log[i].op = "write"
         /\ log[i].ok
         /\ log[i].cmd = HandshakeCmd(i)
         /\ log[i].bytes = to_bytes(HandshakeCmd(i))
         /\ log[i].cmd.tag = "RasterGraphicsTransfer" => Drop(log[i].bytes, 3) = lines[i - 10]

\* log entry i is step i of the handshake, failed: a read that returned no
\* buffer, or a write that stopped short of the command's last byte
StepFailed(i) ==
    IF HandshakeReads(i)
    THEN log[i] = ReadOp(32, <<>>)
    ELSE /\ log[i].op = "write"
         /\ ~log[i].ok
         /\ log[i].cmd = HandshakeCmd(i)
         /\ Len(log[i].bytes) < Len(to_bytes(HandshakeCmd(i)))
         /\ log[i].bytes = Take(to_bytes(HandshakeCmd(i)), Len(log[i].bytes))

\* C1: a successful print_lines on a document of n lines performs exactly
\* Reset, Initialize, StatusInfoRequest, one 32-byte status read,
\* SetCommandMode(Raster), SetPrintInformation(status, n), SetExpandedMode,
\* SetMode, SetPageNumber(1), SetMarginAmount(0), one RasterGraphicsTransfer
\* per line in document order, PrintWithFeeding, three 32-byte status reads.
C1_HandshakeSequence ==
    (pc = "idle" /\ outcome = Ended("print_lines", "Ok")) =>
        /\ Len(log) = Len(lines) + 14
        /\ \A i \in 1..Len(log) : StepDone(i)

\* a printed document whose lines differ, so that their order shows
C1_Witness ==
    /\ pc = "idle"
    /\ outcome = Ended("print_lines", "Ok")
    /\ Len(lines) >= 2
    /\ lines[1] # lines[2]

\* C2: when a device write or a status read fails at step k, print_lines
\* returns an error at once: the log holds steps 1..k-1 done in full, then
\* the failed step, and nothing else.
C2_AbortAtFailedStep ==
    /\ [](/\ (outcome = Ended("print_lines", "Err_Io") /\ log # <<>>) =>
                /\ \A i \in 1..(Len(log) - 1) : StepDone(i)
                /\ StepFailed(Len(log))
          /\ (outcome.fn = "print_lines" /\ log # <<>>
                /\ log[Len(log)].op = "write" /\ ~log[Len(log)].ok) =>
                (outcome = Ended("print_lines", "Err_Io") /\ pc = "idle"))
    /\ [][(pc \in ReadPcs /\ outcome = Running("print_lines") /\ rdRes = "Err") =>
            (outcome' = Ended("print_lines", "Err_Io") /\ pc' = "idle" /\ log' = log)]_vars

\* a print that failed while writing the second raster line
C2_Witness ==
    /\ outcome = Ended("print_lines", "Err_Io")
    /\ Len(log) = 12
    /\ log[12].op = "write"
    /\ ~log[12].ok
    /\ Len(log[12].bytes) = 1

BadHeader(b) == At(b, 0) # 128 \/ At(b, 1) # 32

BadCode(b) ==
    \/ At(b, 11) \notin {0, 10, 11}
    \/ At(b, 18) \notin {0, 1, 2, 5, 6}
    \/ At(b, 19) \notin {0, 1}

\* C5: a 32-byte reply whose byte 0 is not 0x80 or whose byte 1 is not 0x20
\* never yields a PrinterStatus, whatever its other bytes: the decode fails,
\* the caller's status stays as it was, and nothing more is done on the
\* device.
C5_BadHeaderNeverDecodes ==
    [][/\ (pc \in ReadPcs /\ rdRes = "Ok" /\ BadHeader(rdBuf)) =>
            (pc' = "panicked" /\ outcome'.res = "panic" /\ status' = status /\ log' = log)
       /\ pc # "panicked"]_vars

\* print_lines stopped by a reply with a bad header and garbage behind it
C5_Witness ==
    /\ pc = "panicked"
    /\ outcome = Ended("print_lines", "panic")
    /\ BadHeader(rdBuf)
    /\ BadCode(rdBuf)
    /\ log[Len(log)].op = "read"

\* C6: a reply with a valid header and a code outside the enumerated sets
\* makes the decode return a DecodeError to its caller, an error result the
\* caller can handle.  read_status panics instead.
C6_DecodeErrorReturned ==
    (rdRes = "Ok" /\ ~BadHeader(rdBuf) /\ BadCode(rdBuf)) =>
        \/ pc \in ReadPcs
        \/ outcome.res \in {"Err_Io", "Err_Decode"}

\* C7: every status read of render_image follows a StatusInfoRequest written
\* on the same handle, with no other read in between.  render_image reads
\* right after opening the device.
C7_StatusRequestedBeforeRead ==
    outcome.fn = "render_image" =>
        \A i \in 1..Len(log) :
            log[i].op = "read" =>
                /\ i > 1
                /\ log[i - 1].op = "write"
                /\ log[i - 1].ok
                /\ log[i - 1].cmd.tag = "StatusInfoRequest"

\* C8: at most one handle on the printer node is open at any time, and the
\* handle a call of render_image or print_lines opened is closed when the
\* call has ended, with Ok, with an error, or with a panic.
C8_OneHandleClosedOnReturn ==
    /\ open \in {0, 1}
    /\ pc \in {"idle", "ri_begin", "pl_begin", "panicked"} => open = 0

\* the second job's print_lines returned an error after using the device
C8_Witness ==
    /\ pc = "idle"
    /\ jobs = 2
    /\ outcome = Ended("print_lines", "Err_Io")
    /\ Len(log) > 4
    /\ open = 0

------------------------------------------------------------------------------
(* Properties of the command codec on two commands, under SpecCodec *)

\* a equals b or is a proper prefix of b
IsPrefix(a, b) == Len(a) <= Len(b) /\ a = Take(b, Len(a))

\* neither encoding is the other or a beginning of the other
Unambiguous(a, b) == ~IsPrefix(a, b) /\ ~IsPrefix(b, a)

\* C11 as stated: the encodings of two commands of different variants are
\* neither equal nor one a proper prefix of the other, and two commands of
\* the same variant encode to the same length.
C11_NoPrefixCollision ==
    result.kind = "pair" =>
        IF task.cmd.tag # task.other.tag
        THEN Unambiguous(result.bytes, result.other)
        ELSE Len(result.bytes) = Len(result.other)

\* C11 amended: the same, for every two variants other than Invalid with
\* Reset; Invalid's single 00 byte is a proper prefix of Reset's 200 zero
\* bytes.
C11_NoPrefixCollisionButInvalidReset ==
    result.kind = "pair" =>
        IF task.cmd.tag = task.other.tag
        THEN Len(result.bytes) = Len(result.other)
        ELSE IF task.cmd.tag = "Invalid" /\ task.other.tag = "Reset"
        THEN IsPrefix(result.bytes, result.other) /\ Len(result.bytes) < Len(result.other)
        ELSE IF task.cmd.tag = "Reset" /\ task.other.tag = "Invalid"
        THEN IsPrefix(result.other, result.bytes) /\ Len(result.other) < Len(result.bytes)
        ELSE Unambiguous(result.bytes, result.other)

\* two commands that share 1B 69 and carry the same parameter bytes
C11_Witness ==
    /\ result.kind = "pair"
    /\ task.cmd = [tag |-> "SetMarginAmount", margin |-> 27]
    /\ task.other = [tag |-> "SetBaudRate", baud_rate |-> 27]
    /\ Drop(result.bytes, 3) = Drop(result.other, 3)

------------------------------------------------------------------------------
(* Properties of the status codec, under SpecCodec *)

\* the value of b's bit of weight m, and b with only the bits of weight in
\* <<m1, ..>> kept
Bit(b, m) == IF (b \div m) % 2 = 1 THEN m ELSE 0

Masked1(b) == Bit(b, 1) + Bit(b, 2) + Bit(b, 4) + Bit(b, 16) + Bit(b, 128)

Masked2(b) == Bit(b, 4) + Bit(b, 16) + Bit(b, 64) + Bit(b, 128)

\* the offsets of a reply that carry a decoded field, and the header
FieldOffsets == {0, 1, 8, 9, 10, 11, 17, 18, 19}

\* the status the field table assigns to reply r
TableStatus(r) ==
    [kind         |-> "status",
     media_width  |-> At(r, 10),
     media_type   |-> CASE At(r, 11) = 0 -> "NoMedia"
                        [] At(r, 11) = 10 -> "Continuous"
                        [] At(r, 11) = 11 -> "DieCutLabels",
     media_length |-> At(r, 17),
     error1       |-> [no_media_when_printing |-> Bit(At(r, 8), 1) # 0,
                       end_of_media           |-> Bit(At(r, 8), 2) # 0,
                       tape_cutter_jam        |-> Bit(At(r, 8), 4) # 0,
                       main_unit_in_use       |-> Bit(At(r, 8), 16) # 0,
                       fan_doesnt_work        |-> Bit(At(r, 8), 128) # 0],
     error2       |-> [transmission_error          |-> Bit(At(r, 9), 4) # 0,
                       cover_opened_while_printing |-> Bit(At(r, 9), 16) # 0,
                       cannot_feed                 |-> Bit(At(r, 9), 64) # 0,
                       system_error                |-> Bit(At(r, 9), 128) # 0],
     status_type  |-> CASE At(r, 18) = 0 -> "ReplyToStatusRequest"
                        [] At(r, 18) = 1 -> "PrintingCompleted"
                        [] At(r, 18) = 2 -> "Error"
                        [] At(r, 18) = 5 -> "Notification"
                        [] At(r, 18) = 6 -> "PhaseChange",
     phase_state  |-> CASE At(r, 19) = 0 -> "Waiting"
                        [] At(r, 19) = 1 -> "Printing"]

\* replies that differ from r in one offset that carries no field, or in the
\* unmasked bits of bytes 8 and 9
SameFields(r) ==
    { [r EXCEPT ![k + 1] = v] : k \in (0..31) \ FieldOffsets, v \in {0, 129, 255} }
    \cup { [r EXCEPT ![9] = Masked1(At(r, 8)) + a, ![10] = Masked2(At(r, 9)) + b] :
             a \in {0, 8, 32, 64, 104}, b \in {0, 1, 2, 8, 32, 43} }

ValidReply(r) ==
    /\ At(r, 0) = 128
    /\ At(r, 1) = 32
    /\ At(r, 11) \in {0, 10, 11}
    /\ At(r, 18) \in {0, 1, 2, 5, 6}
    /\ At(r, 19) \in {0, 1}

\* C12: a reply with header 80 20 and valid codes decodes to the status of
\* the field table (width byte 10, length byte 17, the three enums from bytes
\* 11/18/19, the flags from bytes 8 and 9 under their masks), and a reply
\* that differs only elsewhere decodes to the same status.
C12_FieldsAtFixedOffsets ==
    (task.kind = "decode" /\ result # Pending /\ ValidReply(task.reply)) =>
        LET st == IF result.kind = "printinfo" THEN result.status ELSE result
        IN /\ st = TableStatus(task.reply)
           /\ \A r2 \in SameFields(task.reply) : DecodeStatus(r2) = st

\* a die-cut reply whose bytes 8 and 9 have exactly the unmasked bits set and
\* whose unused offsets are all FF
C12_Witness ==
    /\ result.kind = "status"
    /\ ValidReply(task.reply)
    /\ At(task.reply, 8) = 104
    /\ At(task.reply, 9) = 43
    /\ At(task.reply, 11) = 11
    /\ At(task.reply, 31) = 255
    /\ result.error1.main_unit_in_use = FALSE

\* the geometries of the fixed table: endless tapes, die-cut labels, round
\* die-cut labels
TablePairs ==
    { <<12, 0>>, <<18, 0>>, <<29, 0>>, <<38, 0>>, <<50, 0>>, <<54, 0>>, <<62, 0>>,
      <<102, 0>>, <<104, 0>>,
      <<17, 54>>, <<17, 87>>, <<23, 23>>, <<29, 42>>, <<29, 90>>, <<38, 90>>,
      <<39, 48>>, <<52, 29>>, <<54, 29>>, <<60, 87>>, <<62, 29>>, <<62, 100>>,
      <<102, 51>>, <<102, 153>>, <<104, 164>>,
      <<24, 24>>, <<58, 58>> }

\* C13: pixel_width is a function of (media_width, media_length) alone:
\* (12,0) -> 113, (29,0) -> 336, (62,0) -> 720, (17,54) -> 201, (24,24) -> 242,
\* (58,58) -> 637; outside the fixed table it is none (0 here), and
\* render_image then takes 720 dots as the target width.
C13_GeometryTable ==
    result.kind = "width" =>
        LET g == <<At(task.reply, 10), At(task.reply, 17)>>
            pw == result.pixel_width
        IN /\ g = <<12, 0>>  => pw = 113
           /\ g = <<29, 0>>  => pw = 336
           /\ g = <<62, 0>>  => pw = 720
           /\ g = <<17, 54>> => pw = 201
           /\ g = <<24, 24>> => pw = 242
           /\ g = <<58, 58>> => pw = 637
           /\ g \in TablePairs => pw > 0 /\ result.new_width = pw
           /\ g \notin TablePairs => pw = 0 /\ result.new_width = 720

\* the round 12 mm label, which the table leaves out, on a reply with every
\* other field set
C13_Witness ==
    /\ result.kind = "width"
    /\ At(task.reply, 10) = 12
    /\ At(task.reply, 17) = 12
    /\ At(task.reply, 8) = 255
    /\ result.pixel_width = 0
    /\ result.new_width = 720

------------------------------------------------------------------------------
(* Properties of the raster pipeline's computations, under SpecRaster *)

\* dot d of a 90-byte line: bit d mod 8 of byte 89 - floor(d / 8)
DotSet(line, d) == (At(line, 89 - (d \div 8)) \div (2 ^ (d % 8))) % 2 = 1

\* one 90-byte line per row, top to bottom, in which dot x + (720 - w) is set
\* iff pixel (x, y) is black and every other dot is clear
BitPackingRule ==
    (task.kind = "pack" /\ result # Pending /\ task.bimg.w <= 720) =>
        LET w == task.bimg.w IN
        /\ result.kind = "lines"
        /\ Len(result.lines) = task.bimg.h
        /\ \A y \in 0..(task.bimg.h - 1) :
            LET line == result.lines[y + 1] IN
            /\ Len(line) = 90
            /\ \A j \in 0..89 : At(line, j) \in Byte
            /\ \A x \in 0..(w - 1) :
                  DotSet(line, x + (720 - w)) <=> (<<x, y>> \in task.bimg.black)
            /\ \A d \in 0..(720 - w - 1) : ~DotSet(line, d)

\* a 113-dot image with its two corners black: dot 607 of the first line and
\* dot 719 of the last
C14_Witness ==
    /\ task.kind = "pack"
    /\ result.kind = "lines"
    /\ task.bimg.w = 113
    /\ task.bimg.h = 2
    /\ task.bimg.black = {<<0, 0>>, <<112, 1>>}
    /\ At(result.lines[1], 89 - 75) = 128
    /\ At(result.lines[2], 0) = 128

\* the worked example of the bit-packing rule: 8 black pixels at x = 0..7 of
\* a 720-dot row give byte 89 = FF and bytes 0..88 = 00
BitPackingExample ==
    (task.kind = "pack" /\ result # Pending /\ task.bimg.w = 720
        /\ task.bimg.black = {<<x, 0>> : x \in 0..7}) =>
        /\ At(result.lines[1], 89) = 255
        /\ \A j \in 0..88 : At(result.lines[1], j) = 0

\* C14: for a binary image of width w <= 720, img_to_lines yields one 90-byte
\* line per row, top to bottom, in which dot x + (720 - w) is set iff pixel
\* (x, y) is black and every other dot, the 720 - w padding dots included,
\* is clear; 8 black pixels at x = 0..7 of a 720-dot row give byte 89 = FF and
\* bytes 0..88 = 00.
C14_BitPacking == BitPackingRule /\ BitPackingExample

\* C15: render_image fails with InvalidImage iff height / width exceeds 3.5
\* in exact arithmetic (2 * h > 7 * w): 3.6 is rejected, 3.4 and exactly 3.5
\* are accepted.
C15_AspectGate ==
    result.kind = "gate" =>
        /\ result.rejected <=> (2 * task.h > 7 * task.w)
        /\ (task.w = 10 /\ task.h = 36) => result.rejected
        /\ (task.w = 10 /\ task.h = 34) => ~result.rejected
        /\ (task.w = 10 /\ task.h = 35) => ~result.rejected

\* an image of ratio exactly 3.5, accepted
C15_Witness ==
    /\ result.kind = "gate"
    /\ task.w = 146
    /\ task.h = 511
    /\ ~result.rejected

\* n / d rounded to the nearest integer, ties away from zero
RoundNearest(n, d) == (2 * n + d) \div (2 * d)

\* C16: the target height is round(W * sourceHeight / sourceWidth), times 2
\* in 600-dpi mode.  The code divides in u32, which drops the fraction.
C16_RoundedTargetHeight ==
    result.kind = "height" =>
        result.new_height = RoundNearest(task.new_width * task.h, task.w)
                              * (IF task.dpi_600 THEN 2 ELSE 1)

\* C17: apply_threshold maps luminance v to black (0) if v <= 128 and to
\* white (255) otherwise, and applied to its own output returns it unchanged.
C17_ThresholdPolicy ==
    /\ result.kind = "binary" =>
          /\ Len(result.pixels) = Len(task.pixels)
          /\ \A i \in 1..Len(task.pixels) :
                result.pixels[i] = (IF task.pixels[i] <= 128 THEN 0 ELSE 255)
    /\ result.kind = "binary2" => result.pixels = result.once

\* a row with 128 and 129 side by side, thresholded twice
C17_Witness ==
    /\ result.kind = "binary2"
    /\ task.pixels = <<0, 127, 128, 129, 255>>
    /\ result.pixels = <<0, 0, 0, 255, 255>>

------------------------------------------------------------------------------
(* Further properties of render_image and print_lines, under Spec *)

\* C18: when render_image fails with InvalidImage, no device handle has been
\* opened, nothing has been written to or read from the printer, and the
\* call returns no raster line: the call ends in its first step, with the
\* device and the document untouched.
C18_InvalidImageLeavesDeviceAlone ==
    /\ [](outcome = Ended("render_image", "Err_InvalidImage") =>
            (pc = "idle" /\ open = 0 /\ log = <<>> /\ lines = <<>>))
    /\ [][(pc = "ri_begin" /\ img # Undecodable /\ 2 * img[2] > 7 * img[1]) =>
            /\ outcome' = Ended("render_image", "Err_InvalidImage")
            /\ open' = open
            /\ log' = log
            /\ devRest' = devRest
            /\ rdAttempts' = rdAttempts
            /\ lines' = lines]_vars

\* a second image, of ratio 3.6, rejected
C18_Witness ==
    /\ outcome = Ended("render_image", "Err_InvalidImage")
    /\ jobs = 2
    /\ img = <<10, 36>>
    /\ rdAttempts > 0

\* C19: for every status whose geometry has a pixel width w, the padding
\* 720 - w is non-negative and img_to_lines runs without underflow and
\* without indexing outside the 90-byte line.  102 mm and 104 mm media have
\* widths 1188 and 1212.
C19_PaddingNonNegative ==
    (outcome.fn = "render_image" /\ pc \in {"pl_begin", "panicked"}
        /\ status.kind = "status" /\ pixel_width(status) > 0) =>
        /\ HeadDots - pixel_width(status) >= 0
        /\ outcome.res # "panic"

\* the RasterGraphicsTransfer commands in the log of the current call
Transfers == {i \in 1..Len(log) : log[i].op = "write" /\ log[i].cmd.tag = "RasterGraphicsTransfer"}

\* the 4 little-endian bytes at offset 7 of an encoded SetPrintInformation
DeclaredCount(b) == b[8] + 256 * b[9] + 65536 * b[10] + 16777216 * b[11]

\* C20: in every run of print_lines the line count in SetPrintInformation is
\* the number of lines of the document; a successful run has written that
\* many RasterGraphicsTransfer commands, all between SetMarginAmount and
\* PrintWithFeeding; an aborted run has written no more than that many.
C20_DeclaredLineCount ==
    outcome.fn = "print_lines" =>
        /\ \A i \in 1..Len(log) :
              (log[i].op = "write" /\ log[i].cmd.tag = "SetPrintInformation") =>
                  /\ log[i].cmd.line_count = Len(lines)
                  /\ log[i].ok => DeclaredCount(log[i].bytes) = Len(lines)
        /\ Cardinality(Transfers) <= Len(lines)
        /\ outcome.res = "Ok" =>
              /\ Cardinality(Transfers) = Len(lines)
              /\ \A i \in Transfers : log[i].ok
              /\ \E m \in 1..Len(log), q \in 1..Len(log) :
                    /\ log[m].op = "write" /\ log[m].cmd.tag = "SetMarginAmount"
                    /\ log[q].op = "write" /\ log[q].cmd.tag = "PrintWithFeeding"
                    /\ Transfers = (m + 1)..(q - 1)
                    /\ DeclaredCount(log[m - 4].bytes) = q - m - 1

\* a 600-dpi document of four lines, printed
C20_Witness ==
    /\ outcome = Ended("print_lines", "Ok")
    /\ settings.dpi_600
    /\ Len(lines) = 4
    /\ Cardinality(Transfers) = 4

------------------------------------------------------------------------------
(* Further properties of Printer::read, under SpecRead *)

\* C21: when read succeeds after one or more failed attempts, the buffer it
\* returns is the first `length` bytes the device delivered since the call
\* began, in order.  Each retry calls read_exact on the whole buffer again,
\* so the bytes a failed attempt took from the device are overwritten and
\* the buffer returned is the last `length` bytes delivered.
C21_FirstBytesReturned ==
    (rdRes = "Ok" /\ rdAttempts > 1) => rdBuf = Take(rdGot, rdLen)

====
